---- MODULE Spec2Model ----
(***************************************************************************)
(* A model of review-buddy's ai_review.py: the configuration load, the     *)
(* polling loop of main, one pass over the open pull/merge requests, the   *)
(* comment scan that decides whether a review is requested, and the prompt *)
(* that is sent to Ollama.                                                  *)
(*                                                                         *)
(* Python strings are sequences of one-character strings, so that `in`,    *)
(* slicing, the regular expression and textwrap.dedent are computed on the *)
(* characters.  A fixed literal of the source that no operation looks into *)
(* is one element of such a sequence.                                       *)
(*                                                                         *)
(* Python's own errors are part of the behaviour: reading a name that was  *)
(* never assigned (NameError, UnboundLocalError), calling a method a class *)
(* does not have (AttributeError) or with the wrong number of arguments    *)
(* (TypeError) raises an Exception like a failed HTTP request does.        *)
(*                                                                         *)
(* Assumed of the environment: comments are written in ASCII; the account  *)
(* of the configured token is the configured username; the hosts answer    *)
(* every request, with a success or with an error status.                  *)
(*                                                                         *)
(* Spec is the script as a whole.  SpecScan runs the scan of one comment   *)
(* thread (lines 197-207) and SpecPrompt the prompt construction (lines    *)
(* 218 and 145-150) as functions of their inputs; SpecModel does the same  *)
(* for get_requested_model, SpecGen for OllamaApi.do_generation, SpecPage  *)
(* for the listing operations of the GitHub and GitLab clients and         *)
(* SpecProcess for process_pull_requests.                                  *)
(***************************************************************************)
EXTENDS Integers, Sequences, FiniteSets, TLC

\* ------------------------------------------------------------------ bounds
\* Pull/merge requests that exist on the hosts.
MaxPRs == 2
\* Comments humans may add to one thread.
MaxThread == 1
\* Comments of a thread given to the scan on its own.
MaxScanLen == 3
\* Characters of a short diff given to the prompt construction on its own.
MaxDiffLen == 4
\* Words of a comment text given to get_requested_model on its own.
MaxWords == 5
\* Lines of a chunk stream given to do_generation on its own.
MaxStreamLen == 3
\* Items of one collection a host serves in pages.
MaxItems == 3
\* Repositories or projects a client lists the open requests of.
MaxRepos == 2

\* ------------------------------------------------------------- Python values
\* The result of a call: it returned val, or it raised err.
Ok(v) == [raised |-> FALSE, err |-> "", val |-> v]
Raise(e) == [raised |-> TRUE, err |-> e, val |-> <<>>]

\* Optional[str]: None, or a string.
None == [has |-> FALSE, val |-> <<>>]
Some(s) == [has |-> TRUE, val |-> s]

\* A key of config.json: absent, or present with a value.
NoKey == [has |-> FALSE, val |-> <<>>]
Key(v) == [has |-> TRUE, val |-> v]

\* x in list
InList(x, list) == \E i \in 1..Len(list) : list[i] = x

\* sub in s, for strings: sub occurs in s as a contiguous run
StrIn(sub, s) ==
    \E i \in 0..(Len(s) - Len(sub)) :
        \A j \in 1..Len(sub) : s[i + j] = sub[j]

\* ------------------------------------------------------------------- config
REPO_OWNER_KEY == "owner"
REPO_NAME_KEY == "name"
DEFAULT_AI_MODEL == <<"c", "o", "d", "e", "l", "l", "a", "m", "a">>

\* The values the model draws config.json from.
BotName == <<"b">>
ModelM == <<"m">>
ModelX == <<"x">>
RepoR == [name |-> <<"r">>, owner |-> <<"o">>]
RepoNoName == [name |-> <<>>, owner |-> <<"o">>]
ProjectP == <<"p">>

ConfigFiles ==
    [ exists : BOOLEAN,
      token : {NoKey, Key(<<>>), Key(<<"t">>)},
      git_url : {NoKey, Key(<<"u">>)},
      ai_model : {NoKey, Key(ModelM), Key(ModelX)},
      allowed_models : {NoKey, Key(<<>>), Key(<<ModelM>>)},
      username : {NoKey, Key(BotName)},
      repositories : {NoKey, Key(<<>>), Key(<<RepoR>>), Key(<<RepoNoName>>)},
      projects : {NoKey, Key(<<>>), Key(<<ProjectP>>)} ]

\* The globals read_config leaves behind when it returns.
Globals(user, model_name, allowed, gh_api, gh_repos, gl_api, gl_projects) ==
    [ git_username |-> user, default_model |-> model_name,
      allowed_models |-> allowed,
      github_api |-> gh_api, github_repos |-> gh_repos,
      gitlab_api |-> gl_api, gitlab_projects |-> gl_projects ]

\* read_config: the checks in the order of the source; the first that fails
\* raises.  A missing "repositories" or "projects" key is a KeyError, a
\* missing file a FileNotFoundError; all are Exceptions.
read_config(data) ==
    LET model_name == IF data.ai_model.has /\ Len(data.ai_model.val) > 0
                      THEN data.ai_model.val ELSE DEFAULT_AI_MODEL
        \* allowed_models is [] (line 50) unless the key holds a non-empty list
        allowed == IF data.allowed_models.has /\ Len(data.allowed_models.val) > 0
                   THEN data.allowed_models.val ELSE <<>>
        repos == data.repositories.val
        projects == data.projects.val
    IN  IF ~data.exists THEN Raise("FileNotFoundError")
        ELSE IF ~data.token.has \/ Len(data.token.val) = 0 THEN Raise("Exception")
        ELSE IF ~data.git_url.has \/ Len(data.git_url.val) = 0 THEN Raise("Exception")
        ELSE IF Len(allowed) > 0 /\ ~InList(model_name, allowed) THEN Raise("Exception")
        ELSE IF ~data.username.has \/ Len(data.username.val) = 0 THEN Raise("Exception")
        ELSE IF ~data.repositories.has THEN Raise("KeyError")
        ELSE IF ~data.projects.has THEN Raise("KeyError")
        ELSE IF \E i \in 1..Len(repos) :
                    Len(repos[i].name) = 0 \/ Len(repos[i].owner) = 0
             THEN Raise("Exception")
        \* github_api and gitlab_api are only annotated at module level
        \* (lines 44, 46): the one that is not assigned here stays unbound
        ELSE IF Len(repos) > 0
             THEN Ok(Globals(data.username.val, model_name, allowed,
                             "GitHubApi", repos, "unbound", <<>>))
        ELSE IF Len(projects) > 0
             THEN Ok(Globals(data.username.val, model_name, allowed,
                             "unbound", <<>>, "GitLabApi", projects))
        ELSE Raise("Exception")

\* ---------------------------------------------------------------- the hosts
\* The pull/merge requests of the configured repositories and projects that
\* may be opened; the first open_count of them are open.
PRs == 1..MaxPRs
PrTitle(pr) == <<"t">>

\* What humans write on a thread.
MentionBody == <<"@", "b">>
UseXBody == <<"@", "b", " ", "u", "s", "e", " ", "x">>
HumanName == <<"a">>
HumanComments == [author : {HumanName}, body : {MentionBody, UseXBody}]

\* str() of the requests.Response that GitLabApi.get_diff returns.
ResponseRepr == <<"<Response [200]>">>

\* The chunk stream Ollama answers a generation with.
ReviewStream == << [response |-> <<"L">>, done |-> FALSE],
                   [response |-> <<"G">>, done |-> TRUE] >>

\* ------------------------------------------------------------ the API classes
\* The methods of each client class, with the number of arguments each takes
\* besides self.
MethodArity(cls) ==
    IF cls = "GitHubApi"
    THEN [ get_open_prs |-> 0, get_comments_for_pr |-> 1, get_pr_diff |-> 1,
           get_changed_files |-> 1, get_changed_file_whole_contents |-> 1,
           get_upstream_file_whole_contents |-> 2, post_comment |-> 2 ]
    ELSE [ get_comments |-> 1, get_diff |-> 1, get_changed_files |-> 1,
           get_open_mrs |-> 1, get_raw_file_contents |-> 3, post_comment |-> 2 ]

\* What calling api.name with nargs arguments raises before its body runs:
\* AttributeError when the class has no such method, TypeError when it takes
\* another number of arguments, "" when the call enters the method.
CallError(cls, name, nargs) ==
    IF name \notin DOMAIN MethodArity(cls) THEN "AttributeError"
    ELSE IF MethodArity(cls)[name] # nargs THEN "TypeError"
    ELSE ""

\* ------------------------------------------------------- the world of a pass
\* open: the number of open requests; threads: their comment threads; calls: the HTTP requests made so
\* far in this pass; gens: the generations requested; posts: the comments
\* posted; fail_at: the HTTP request of this pass that fails (0: none);
\* err: the exception that is propagating ("" when none); stream: the chunk
\* stream Ollama answers a generation with.
World(open, threads, fail_at) ==
    [ open |-> open, threads |-> threads, calls |-> <<>>, gens |-> <<>>, posts |-> <<>>,
      fail_at |-> fail_at, err |-> "", stream |-> ReviewStream ]

Throw(w, e) == [w EXCEPT !.err = e]

\* One HTTP request followed by raise_for_status().
Http(w, call) ==
    LET w1 == [w EXCEPT !.calls = Append(@, call)]
    IN  IF Len(w1.calls) = w.fail_at THEN Throw(w1, "HTTPError") ELSE w1

\* get_api(): a global that was never assigned raises NameError when read.
get_api(G) ==
    IF G.github_api = "unbound" THEN Raise("NameError")
    ELSE IF G.github_api # "None" THEN Ok(G.github_api)
    ELSE IF G.gitlab_api = "unbound" THEN Raise("NameError")
    ELSE IF G.gitlab_api # "None" THEN Ok(G.gitlab_api)
    ELSE Raise("Exception")

\* GitLabApi.get_open_mrs: one request per project, the merge requests of all.
RECURSIVE get_open_mrs(_, _, _)
get_open_mrs(w, project_ids, i) ==
    IF i > Len(project_ids) \/ w.err # "" THEN w
    ELSE get_open_mrs(Http(w, [op |-> "get_open_mrs", arg |-> project_ids[i]]),
                      project_ids, i + 1)

\* The open merge requests of the projects, in the order of the host.
OpenMrs(w, project_ids) ==
    IF InList(ProjectP, project_ids) THEN [i \in 1..w.open |-> i] ELSE <<>>

\* get_pull_requests(): [w, val], val the list of open requests.
get_pull_requests(G, w) ==
    LET api == get_api(G)
    IN  IF api.raised THEN [w |-> Throw(w, api.err), val |-> <<>>]
        ELSE IF api.val = "GitLabApi"
        THEN LET e == CallError("GitLabApi", "get_open_mrs", 1)
                 w1 == get_open_mrs(w, G.gitlab_projects, 1)
             IN  IF e # "" THEN [w |-> Throw(w, e), val |-> <<>>]
                 ELSE [w |-> w1,
                       val |-> IF w1.err = "" THEN OpenMrs(w, G.gitlab_projects) ELSE <<>>]
        \* api.get_open_prs(github_repos): GitHubApi.get_open_prs takes no argument
        ELSE LET e == CallError("GitHubApi", "get_open_prs", 1)
             IN  [w |-> Throw(w, IF e # "" THEN e ELSE "AttributeError"), val |-> <<>>]

\* ------------------------------------------------------------ the comment scan
\* Mutation: a comment of the bot does not reset the trigger (line 204 left out).
ScanStep_without_reset(git_username, st, comment_username, comment_body) ==
    IF StrIn(git_username, comment_username)
    THEN st
    ELSE IF StrIn(<<"@">> \o git_username, comment_body)
    THEN [review_requested |-> TRUE, latest_comment_text |-> comment_body]
    ELSE st

\* Mutation: the mention is tested before the author.
ScanStep_mention_first(git_username, st, comment_username, comment_body) ==
    IF StrIn(<<"@">> \o git_username, comment_body)
    THEN [review_requested |-> TRUE, latest_comment_text |-> comment_body]
    ELSE IF StrIn(git_username, comment_username)
    THEN [st EXCEPT !.review_requested = FALSE]
    ELSE st

\* Mutation: a mention does not replace the text of a mention that is pending.
ScanStep_first_mention(git_username, st, comment_username, comment_body) ==
    IF StrIn(git_username, comment_username)
    THEN [st EXCEPT !.review_requested = FALSE]
    ELSE IF StrIn(<<"@">> \o git_username, comment_body)
    THEN [review_requested |-> TRUE,
          latest_comment_text |-> IF st.review_requested THEN st.latest_comment_text
                                  ELSE comment_body]
    ELSE st

\* One iteration of the loop over the comments (lines 199-207), on
\* st = [review_requested, latest_comment_text].
ScanStep(git_username, st, comment_username, comment_body) ==
    IF StrIn(git_username, comment_username)
    THEN [st EXCEPT !.review_requested = FALSE]
    ELSE IF StrIn(<<"@">> \o git_username, comment_body)
    THEN [review_requested |-> TRUE, latest_comment_text |-> comment_body]
    ELSE st

ScanInit == [review_requested |-> FALSE, latest_comment_text |-> <<>>]

\* The state of the scan after the first n comments.
RECURSIVE ScanFirst(_, _, _)
ScanFirst(git_username, comments, n) ==
    IF n = 0 THEN ScanInit
    ELSE ScanStep(git_username, ScanFirst(git_username, comments, n - 1),
                  comments[n].author, comments[n].body)

ScanComments(git_username, comments) ==
    ScanFirst(git_username, comments, Len(comments))

\* -------------------------------------------------------- get_requested_model
\* The classes of the pattern \b(use|using)\s+([a-zA-Z0-9\-\:\.]+), on the
\* characters the model writes comments with.
LowerLetters == {"a", "b", "c", "d", "e", "f", "g", "h", "i", "j", "k", "l", "m",
                 "n", "o", "p", "q", "r", "s", "t", "u", "v", "w", "x", "y", "z"}
UpperLetters == {"A", "B", "C", "D", "E", "F", "G", "H", "I", "J", "K", "L", "M",
                 "N", "O", "P", "Q", "R", "S", "T", "U", "V", "W", "X", "Y", "Z"}
Digits == {"0", "1", "2", "3", "4", "5", "6", "7", "8", "9"}
WordChars == LowerLetters \cup UpperLetters \cup Digits \cup {"_"}
TokenChars == LowerLetters \cup UpperLetters \cup Digits \cup {"-", ":", "."}
SpaceChars == {" ", "\t", "\n"}

\* re.IGNORECASE, for the letters of the two keywords.
Lower(ch) ==
    CASE ch = "U" -> "u" [] ch = "S" -> "s" [] ch = "E" -> "e"
      [] ch = "I" -> "i" [] ch = "N" -> "n" [] ch = "G" -> "g"
      [] OTHER -> ch

\* word is at text[p..] whatever the case
WordAt(text, p, word) ==
    /\ p + Len(word) - 1 <= Len(text)
    /\ \A j \in 1..Len(word) : Lower(text[p + j - 1]) = word[j]

\* The first position from p on that holds no white space (Len + 1 if none).
RECURSIVE SkipSpace(_, _)
SkipSpace(text, p) ==
    IF p <= Len(text) /\ text[p] \in SpaceChars THEN SkipSpace(text, p + 1) ELSE p

\* The last position of the run of token characters that starts at p.
RECURSIVE TokenEnd(_, _)
TokenEnd(text, p) ==
    IF p + 1 <= Len(text) /\ text[p + 1] \in TokenChars
    THEN TokenEnd(text, p + 1) ELSE p

\* Where the token starts when keyword word, at p, is followed by \s+ and a
\* token; 0 when it is not.
TokenAfter(text, p, word) ==
    LET q == p + Len(word)
        t == SkipSpace(text, q)
    IN  IF WordAt(text, p, word) /\ t > q /\ t <= Len(text) /\ text[t] \in TokenChars
        THEN t ELSE 0

\* Where group 2 starts when the pattern matches at p; 0 when it does not.
\* \b before a letter: the start of the text or a non-word character before.
MatchAt(text, p) ==
    IF p > 1 /\ text[p - 1] \in WordChars THEN 0
    ELSE IF TokenAfter(text, p, <<"u", "s", "e">>) # 0
    THEN TokenAfter(text, p, <<"u", "s", "e">>)
    ELSE TokenAfter(text, p, <<"u", "s", "i", "n", "g">>)

\* re.search: the leftmost position the pattern matches at.
get_requested_model(text) ==
    LET hits == {p \in 1..Len(text) : MatchAt(text, p) # 0}
    IN  IF hits = {} THEN None
        ELSE LET p == CHOOSE h \in hits : \A k \in hits : h <= k
                 t == MatchAt(text, p)
             IN  Some(SubSeq(text, t, TokenEnd(text, t)))

\* ------------------------------------------------------------------ the prompt
PROMPT_HEAD == <<"You are a senior software engineer. Review this open pull request titled \"">>
PROMPT_TAIL == <<"\". Point out potential bugs, style issues, and improvements. You do not need to summarize the changes. Include example code in your feedback.", "\n">>
DIFF_HEAD == <<"Git diff", "\n">>
BlankChars == {" ", "\t"}

\* Position i of text lies on a line that holds only blanks and tabs.
OnBlankLine(text, i) ==
    /\ text[i] \in BlankChars
    /\ \A j \in 1..Len(text) :
          (\A k \in (IF i < j THEN i ELSE j)..(IF i < j THEN j ELSE i) : text[k] # "\n")
              => text[j] \in BlankChars

\* textwrap.dedent of a text whose first line starts with a letter: there is
\* no common margin to remove, and every line of only blanks and tabs is
\* emptied.
dedent(text) ==
    LET at == [i \in 1..Len(text) |-> <<i, text[i]>>]
        kept == SelectSeq(at, LAMBDA x : ~OnBlankLine(text, x[1]))
    IN  [i \in 1..Len(kept) |-> kept[i][2]]

\* The prompt do_review builds (lines 145-150).
review_prompt(title, code_changes) ==
    dedent(PROMPT_HEAD \o title \o PROMPT_TAIL \o code_changes)

\* prompt_text of process_pull_requests (line 218), for str(diff).
prompt_text(diff) == DIFF_HEAD \o diff

\* ------------------------------------------------------------------ ollama_api
\* __do_streaming_request: the responses of the chunks up to the first one
\* that is done, or of all of them when none is; empty lines are skipped.
RECURSIVE do_streaming_request(_, _, _)
do_streaming_request(lines, i, response) ==
    IF i > Len(lines) THEN response
    ELSE IF lines[i] = <<>> THEN do_streaming_request(lines, i + 1, response)
    ELSE IF lines[i].done THEN response \o lines[i].response
    ELSE do_streaming_request(lines, i + 1, response \o lines[i].response)

\* Mutation: the loop breaks on a done chunk before it adds its response.
read_line_break_first(st, line) ==
    IF line = <<>> THEN st
    ELSE IF line.done THEN [st EXCEPT !.stopped = TRUE]
    ELSE [response |-> st.response \o line.response, stopped |-> FALSE]

\* One iteration of `for line in r.iter_lines()` (lines 35-41) on
\* st = [response, stopped]; stopped: the loop has met its break.
read_line(st, line) ==
    IF line = <<>> THEN st
    ELSE [response |-> st.response \o line.response, stopped |-> line.done]

\* do_generation: the model that is asked (line 47).
model_name(model, default_model) == IF model.has THEN model.val ELSE default_model

\* do_review: one generation request for pr; [w, val], val the review.
do_review(G, w, pr, code_changes, model) ==
    LET prompt == review_prompt(PrTitle(pr), code_changes)
        name == model_name(model, G.default_model)
        w1 == Http(w, [op |-> "generate", arg |-> pr])
        w2 == [w1 EXCEPT !.gens = Append(@, [pr |-> pr, model |-> name, prompt |-> prompt])]
    IN  IF w1.err # "" THEN [w |-> w1, val |-> <<>>]
        ELSE [w |-> w2, val |-> do_streaming_request(w.stream, 1, <<>>)]

\* ------------------------------------------------------- process_pull_requests
\* ', '.join(list)
RECURSIVE Join(_, _)
Join(list, i) ==
    IF i > Len(list) THEN <<>>
    ELSE IF i = Len(list) THEN list[i]
    ELSE list[i] \o <<", ">> \o Join(list, i + 1)

REJECTION_TEXT == <<" is not an allowed model. Please use on of the following models: ">>

\* The comment that rejects a model (lines 213-215).
rejection(model, allowed) ==
    model \o REJECTION_TEXT \o Join(allowed, 1) \o <<".">>

\* api.post_comment(pr, content): the comment is on the thread once the POST
\* succeeded, written by the account of the token, the bot.
post_comment(G, api, w, pr, content) ==
    LET e == CallError(api, "post_comment", 2)
        w1 == Http(w, [op |-> "post_comment", arg |-> pr])
    IN  IF e # "" THEN Throw(w, e)
        \* GitHubApi(git_token): self.config is a str and has no .token
        ELSE IF api = "GitHubApi" THEN Throw(w, "AttributeError")
        ELSE IF w1.err # "" THEN w1
        ELSE [w1 EXCEPT !.posts = Append(@, [pr |-> pr, body |-> content]),
                        !.threads[pr] = Append(@, [author |-> G.git_username,
                                                   body |-> content])]

\* api.get_diff(pr): [w, val]; GitLabApi.get_diff returns the Response, whose
\* str() the f-string of line 218 embeds.
get_diff(api, w, pr) ==
    LET e == CallError(api, "get_diff", 1)
        w1 == Http(w, [op |-> "get_diff", arg |-> pr])
    IN  IF e # "" THEN [w |-> Throw(w, e), val |-> <<>>]
        ELSE [w |-> w1, val |-> ResponseRepr]

\* The review of a request whose scan ended with st (lines 208-220).
review(G, api, w, pr, st) ==
    LET model == get_requested_model(st.latest_comment_text)
        d == get_diff(api, w, pr)
        r == do_review(G, d.w, pr, prompt_text(d.val), model)
    IN  IF model.has /\ ~InList(model.val, G.allowed_models)
        THEN post_comment(G, api, w, pr, rejection(model.val, G.allowed_models))
        ELSE IF d.w.err # "" THEN d.w
        ELSE IF r.w.err # "" THEN r.w
        ELSE post_comment(G, api, r.w, pr, r.val)

\* The body of the loop over the requests (lines 193-225) for pr; c is the
\* local variable c, "unbound" until a loop over comments has assigned it.
\* [w, c].
process_one(G, api, w, pr, c) ==
    LET is_github == (c = "GitHubComment")
        e == CallError(api, "get_comments", 1)
        w1 == Http(w, [op |-> "get_comments", arg |-> pr])
        comments == w.threads[pr]
        st == ScanComments(G.git_username, comments)
    IN  IF c = "unbound" THEN [w |-> Throw(w, "UnboundLocalError"), c |-> c]
        ELSE IF e # "" THEN [w |-> Throw(w, e), c |-> c]
        ELSE IF w1.err # "" \/ Len(comments) = 0 THEN [w |-> w1, c |-> c]
        \* c.user.login of a GitLabNote
        ELSE IF is_github THEN [w |-> Throw(w1, "AttributeError"), c |-> "GitLabNote"]
        ELSE IF st.review_requested
        THEN [w |-> review(G, api, w1, pr, st), c |-> "GitLabNote"]
        ELSE [w |-> w1, c |-> "GitLabNote"]

RECURSIVE process_from(_, _, _, _, _, _)
process_from(G, api, w, pulls, i, c) ==
    IF i > Len(pulls) \/ w.err # "" THEN w
    ELSE LET one == process_one(G, api, w, pulls[i], c)
         IN  process_from(G, api, one.w, pulls, i + 1, one.c)

process_pull_requests(G, w, pulls) ==
    LET api == get_api(G)
    IN  IF api.raised THEN Throw(w, api.err)
        ELSE process_from(G, api.val, w, pulls, 1, "unbound")

\* One pass: the try block of main's loop (lines 249-252).
pass(G, w) ==
    LET open_prs == get_pull_requests(G, w)
    IN  IF open_prs.w.err # "" THEN open_prs.w
        ELSE IF Len(open_prs.val) > 0
        THEN process_pull_requests(G, open_prs.w, open_prs.val)
        ELSE open_prs.w

\* ------------------------------------------------------------ the state machine
VARIABLES
    pc,             \* where the script is: "start", "loop", "sleep", "cooldown",
                    \* "returned" (main returned), "exited" (the process ended)
    config_json,    \* the contents of config.json
    globals,        \* the module's globals, set by read_config
    open_count,     \* the number of open requests on the host
    threads,        \* the comment thread of every request, on the host
    calls,          \* the HTTP requests of the last pass
    gens,           \* the generations requested in the last pass
    posts,          \* the comments posted in the last pass
    err,            \* the exception that ended the last pass ("" when none)
    failed_at,      \* the HTTP request of the last pass that failed (0: none)
    slept,          \* the seconds of the sleep that follows the last pass
    main_ret,       \* what main returned
    exit_status,    \* the exit status of the process
    scan,           \* the scan of one thread on its own: [git_username,
                    \* comments, i, review_requested, latest_comment_text]
    prompt_io,      \* the prompt construction on its own: [title, diff, built, prompt]
    model_io,       \* get_requested_model on its own: [text, called, model]
    gen_io,         \* a generation on its own: [model, default_model, status_ok,
                    \* lines, at, asked, i, response, stopped, value, err]
    page_io,        \* a listing operation on its own: [op, sizes, per_page, repo,
                    \* page, has_pages_remaining, response_list, returned]
    proc            \* process_pull_requests on its own: [G, open, threads, stream,
                    \* called, posts, gens, err]

vars == << pc, config_json, globals, open_count, threads, calls, gens, posts, err, failed_at,
           slept, main_ret, exit_status, scan, prompt_io, model_io, gen_io, page_io, proc >>

program_vars == << pc, config_json, globals, open_count, threads, calls, gens, posts, err,
                   failed_at, slept, main_ret, exit_status >>

NORMAL_SLEEP == 60
COOLDOWN_SLEEP == 60 * 5

NoGlobals == Globals(<<>>, <<>>, <<>>, "unbound", <<>>, "unbound", <<>>)
NoScan == [git_username |-> <<>>, comments |-> <<>>, i |-> 0,
           review_requested |-> FALSE, latest_comment_text |-> <<>>]
NoPrompt == [title |-> <<>>, diff |-> <<>>, built |-> FALSE, prompt |-> <<>>]
NoModel == [text |-> <<>>, called |-> FALSE, model |-> None]
NoGen == [model |-> None, default_model |-> <<>>, status_ok |-> TRUE, lines |-> <<>>,
          at |-> "idle", asked |-> <<>>, i |-> 0, response |-> <<>>, stopped |-> FALSE,
          value |-> None, err |-> ""]
NoPage == [op |-> "", sizes |-> <<>>, per_page |-> 1, repo |-> 0, page |-> 0,
           has_pages_remaining |-> FALSE, response_list |-> <<>>, returned |-> FALSE]
NoProc == [G |-> NoGlobals, open |-> 0, threads |-> [pr \in PRs |-> <<>>], stream |-> <<>>,
           called |-> FALSE, posts |-> <<>>, gens |-> <<>>, err |-> ""]

ProgramIdle ==
    /\ pc = "idle"
    /\ config_json = [exists |-> FALSE, token |-> NoKey, git_url |-> NoKey,
                      ai_model |-> NoKey, allowed_models |-> NoKey,
                      username |-> NoKey, repositories |-> NoKey, projects |-> NoKey]
    /\ globals = NoGlobals
    /\ open_count = 0
    /\ threads = [pr \in PRs |-> <<>>]
    /\ calls = <<>> /\ gens = <<>> /\ posts = <<>> /\ err = "" /\ failed_at = 0
    /\ slept = 0 /\ main_ret = 0 /\ exit_status = 0

\* The script starts: nothing is read yet, no request is open.
Init ==
    /\ pc = "start"
    /\ config_json \in ConfigFiles
    /\ globals = NoGlobals
    /\ open_count = 0
    /\ threads = [pr \in PRs |-> <<>>]
    /\ calls = <<>> /\ gens = <<>> /\ posts = <<>> /\ err = "" /\ failed_at = 0
    /\ slept = 0 /\ main_ret = 0 /\ exit_status = 0
    /\ scan = NoScan
    /\ prompt_io = NoPrompt
    /\ model_io = NoModel /\ gen_io = NoGen /\ page_io = NoPage /\ proc = NoProc

\* main, lines 242-246: read_config, and return -1 when it raises (the
\* globals read_config assigned before it raised are not read again).
MainReadConfig ==
    /\ pc = "start"
    /\ LET r == read_config(config_json)
       IN  IF r.raised
           THEN /\ pc' = "returned"
                /\ main_ret' = -1
                /\ globals' = globals
           ELSE /\ pc' = "loop"
                /\ main_ret' = main_ret
                /\ globals' = r.val
    /\ UNCHANGED << config_json, open_count, threads, calls, gens, posts, err, failed_at,
                    slept, exit_status, scan, prompt_io,
                    model_io, gen_io, page_io, proc >>

\* Lines 260-261: the script calls main() and drops what it returns; the
\* interpreter then ends with status 0.
ScriptEnd ==
    /\ pc = "returned"
    /\ pc' = "exited"
    /\ exit_status' = 0
    /\ UNCHANGED << config_json, globals, open_count, threads, calls, gens, posts, err,
                    failed_at, slept, main_ret, scan, prompt_io,
                    model_io, gen_io, page_io, proc >>

\* The HTTP request of a pass that may fail.
FailPoints == 0..(1 + 4 * MaxPRs)

\* Mutation: no except clause around the pass; an exception ends main.
Pass_without_except ==
    /\ pc = "loop"
    /\ \E fail_at \in FailPoints :
          LET w == pass(globals, World(open_count, threads, fail_at))
          IN  /\ threads' = w.threads
              /\ calls' = w.calls
              /\ gens' = w.gens
              /\ posts' = w.posts
              /\ err' = w.err
              /\ failed_at' = IF w.err = "HTTPError" THEN fail_at ELSE 0
              /\ pc' = IF w.err = "" THEN "sleep" ELSE "returned"
              /\ slept' = IF w.err = "" THEN NORMAL_SLEEP ELSE slept
    /\ UNCHANGED << config_json, globals, open_count, main_ret, exit_status,
                    scan, prompt_io,
                    model_io, gen_io, page_io, proc >>

\* One iteration of main's loop up to its sleep (lines 248-258): the pass,
\* then the sleep of one minute, or of five when the pass raised.
Pass ==
    /\ pc = "loop"
    /\ \E fail_at \in FailPoints :
          LET w == pass(globals, World(open_count, threads, fail_at))
          IN  /\ threads' = w.threads
              /\ calls' = w.calls
              /\ gens' = w.gens
              /\ posts' = w.posts
              /\ err' = w.err
              /\ failed_at' = IF w.err = "HTTPError" THEN fail_at ELSE 0
              /\ pc' = IF w.err = "" THEN "sleep" ELSE "cooldown"
              /\ slept' = IF w.err = "" THEN NORMAL_SLEEP ELSE COOLDOWN_SLEEP
    /\ UNCHANGED << config_json, globals, open_count, main_ret, exit_status,
                    scan, prompt_io,
                    model_io, gen_io, page_io, proc >>

\* time.sleep returns and the loop starts over.
Wake ==
    /\ pc \in {"sleep", "cooldown"}
    /\ pc' = "loop"
    /\ UNCHANGED << config_json, globals, open_count, threads, calls, gens, posts, err,
                    failed_at, slept, main_ret, exit_status, scan, prompt_io,
                    model_io, gen_io, page_io, proc >>

\* A human opens a request while the script is between two passes.
HumanOpens ==
    /\ pc = "loop"
    /\ open_count < MaxPRs
    /\ open_count' = open_count + 1
    /\ UNCHANGED << pc, config_json, globals, threads, calls, gens, posts, err,
                    failed_at, slept, main_ret, exit_status, scan, prompt_io,
                    model_io, gen_io, page_io, proc >>

\* A human comments on an open request while the script is between two passes.
HumanComment ==
    /\ pc = "loop"
    /\ \E pr \in 1..open_count, cm \in HumanComments :
          /\ Len(threads[pr]) < MaxThread
          /\ threads' = [threads EXCEPT ![pr] = Append(@, cm)]
    /\ UNCHANGED << pc, config_json, globals, open_count, calls, gens, posts, err,
                    failed_at, slept, main_ret, exit_status, scan, prompt_io,
                    model_io, gen_io, page_io, proc >>

Next == MainReadConfig \/ ScriptEnd \/ Pass \/ Wake \/ HumanOpens \/ HumanComment

Spec == Init /\ [][Next]_vars

\* The script is one sequential thread: a pass ends (every request has a
\* timeout) and a sleep returns.
FairSpec == Spec /\ WF_vars(Pass) /\ WF_vars(Wake) /\ WF_vars(MainReadConfig)
                 /\ WF_vars(ScriptEnd)

\* -------------------------------------------------- the scan of a thread alone
ScanNames == { <<"b">>, <<"a", "b">>, <<"a">> }
ScanBodies == { <<"@", "b">>, <<"@", "a", "b">>, <<"o", "k">>,
                <<"@", "a", "b", " ", "@", "b", " ", "u", "s", "e", " ", "x">> }
ScanThreads ==
    UNION { [1..n -> [author : ScanNames, body : ScanBodies]] : n \in 0..MaxScanLen }

\* Lines 197-198: a thread, a bot identity, and the scan about to start.
ScanSpecInit ==
    /\ ProgramIdle
    /\ prompt_io = NoPrompt
    /\ model_io = NoModel /\ gen_io = NoGen /\ page_io = NoPage /\ proc = NoProc
    /\ \E user \in {<<"b">>, <<"a", "b">>}, cs \in ScanThreads :
          scan = [git_username |-> user, comments |-> cs, i |-> 0,
                  review_requested |-> FALSE, latest_comment_text |-> <<>>]

\* One iteration of `for c in comments` (lines 199-207).
ScanNext ==
    /\ scan.i < Len(scan.comments)
    /\ LET c == scan.comments[scan.i + 1]
           st == ScanStep(scan.git_username,
                          [review_requested |-> scan.review_requested,
                           latest_comment_text |-> scan.latest_comment_text],
                          c.author, c.body)
       IN  scan' = [scan EXCEPT !.i = @ + 1,
                                !.review_requested = st.review_requested,
                                !.latest_comment_text = st.latest_comment_text]
    /\ UNCHANGED << program_vars, prompt_io, model_io, gen_io, page_io, proc >>

SpecScan == ScanSpecInit /\ [][ScanNext]_vars

\* -------------------------------------------- the prompt construction alone
DiffChars == {"a", " ", "\n"}
ShortDiffs == UNION { [1..n -> DiffChars] : n \in 0..MaxDiffLen }
\* Diffs of 3999, 4000 and 4001 characters.
LongDiffs == { [i \in 1..n |-> IF i % 50 = 0 THEN "\n" ELSE "a"] : n \in 3999..4001 }

PromptSpecInit ==
    /\ ProgramIdle
    /\ scan = NoScan
    /\ model_io = NoModel /\ gen_io = NoGen /\ page_io = NoPage /\ proc = NoProc
    /\ \E d \in ShortDiffs \cup LongDiffs, t \in {<<"t">>, <<"t", " ", "2">>} :
          prompt_io = [title |-> t, diff |-> d, built |-> FALSE, prompt |-> <<>>]

\* Lines 218 and 145-150: the prompt for a diff.
BuildPrompt ==
    /\ ~prompt_io.built
    /\ prompt_io' = [prompt_io EXCEPT
                        !.built = TRUE,
                        !.prompt = review_prompt(prompt_io.title,
                                                 prompt_text(prompt_io.diff))]
    /\ UNCHANGED << program_vars, scan, model_io, gen_io, page_io, proc >>

SpecPrompt == PromptSpecInit /\ [][BuildPrompt]_vars

\* ------------------------------------------------- get_requested_model alone
\* words[1] \o words[2] \o ...
RECURSIVE Flatten(_, _)
Flatten(words, i) ==
    IF i > Len(words) THEN <<>> ELSE words[i] \o Flatten(words, i + 1)

\* What comment texts are made of: the two keywords, white space, punctuation
\* and model names.
ModelWords == { <<"u", "s", "e">>, <<"U", "s", "i", "n", "g">>, <<" ">>, <<",">>,
                <<"m">>, <<"x", ":", "1">> }
ModelTexts ==
    { Flatten(ws, 1) : ws \in UNION { [1..n -> ModelWords] : n \in 0..MaxWords } }

ModelSpecInit ==
    /\ ProgramIdle
    /\ scan = NoScan /\ prompt_io = NoPrompt
    /\ gen_io = NoGen /\ page_io = NoPage /\ proc = NoProc
    /\ \E t \in ModelTexts : model_io = [text |-> t, called |-> FALSE, model |-> None]

\* get_requested_model(text) is called and returns (lines 177-187).
GetRequestedModel ==
    /\ ~model_io.called
    /\ model_io' = [model_io EXCEPT !.called = TRUE,
                                    !.model = get_requested_model(model_io.text)]
    /\ UNCHANGED << program_vars, scan, prompt_io, gen_io, page_io, proc >>

SpecModel == ModelSpecInit /\ [][GetRequestedModel]_vars

\* -------------------------------------------------------- a generation alone
\* What Ollama streams: chunks, and empty keep-alive lines.
GenChunks == [response : {<<"a">>, <<"b">>}, done : BOOLEAN]
GenLines == {<<>>} \cup GenChunks
GenStreams == UNION { [1..n -> GenLines] : n \in 0..MaxStreamLen }

\* do_generation(request, model) is called; Ollama will answer with a status
\* and, when the status is a success, with a stream of lines.
GenSpecInit ==
    /\ ProgramIdle
    /\ scan = NoScan /\ prompt_io = NoPrompt
    /\ model_io = NoModel /\ page_io = NoPage /\ proc = NoProc
    /\ \E m \in {None, Some(ModelX)}, ok \in BOOLEAN, ls \in GenStreams :
          gen_io = [NoGen EXCEPT !.model = m, !.default_model = ModelM,
                                 !.status_ok = ok, !.lines = ls, !.at = "call"]

\* do_generation up to the loop over the lines (lines 47-55 and 28-34):
\* the request is posted and raise_for_status raises on an error status.
GenOpen ==
    /\ gen_io.at = "call"
    /\ gen_io' = [gen_io EXCEPT
                      !.asked = model_name(gen_io.model, gen_io.default_model),
                      !.at = IF gen_io.status_ok THEN "read" ELSE "done",
                      !.err = IF gen_io.status_ok THEN "" ELSE "HTTPError"]
    /\ UNCHANGED << program_vars, scan, prompt_io, model_io, page_io, proc >>

\* One line of the stream is read (lines 35-41).
GenLine ==
    /\ gen_io.at = "read"
    /\ ~gen_io.stopped
    /\ gen_io.i < Len(gen_io.lines)
    /\ LET st == read_line([response |-> gen_io.response, stopped |-> gen_io.stopped],
                           gen_io.lines[gen_io.i + 1])
       IN  gen_io' = [gen_io EXCEPT !.i = @ + 1,
                                    !.response = st.response,
                                    !.stopped = st.stopped]
    /\ UNCHANGED << program_vars, scan, prompt_io, model_io, page_io, proc >>

\* The loop has ended, by its break or with the stream; the text goes back to
\* the caller of do_generation (lines 43 and 55).
GenReturn ==
    /\ gen_io.at = "read"
    /\ gen_io.stopped \/ gen_io.i = Len(gen_io.lines)
    /\ gen_io' = [gen_io EXCEPT !.at = "done", !.value = Some(gen_io.response)]
    /\ UNCHANGED << program_vars, scan, prompt_io, model_io, page_io, proc >>

GenNext == GenOpen \/ GenLine \/ GenReturn

SpecGen == GenSpecInit /\ [][GenNext]_vars

\* ------------------------------------------------- a listing operation alone
\* The operations of the clients that return a collection: of src/github_api.py,
\* of src/code_review/github_api.py and of src/gitlab_api.py.
ListingOps ==
    { "GitHubApi.get_open_prs", "GitHubApi.get_comments_for_pr",
      "GitHubApi.get_changed_files",
      "code_review.GitHubApi.get_open_prs", "code_review.GitHubApi.get_comments_for_pr",
      "code_review.GitHubApi.get_changed_files",
      "GitLabApi.get_open_mrs", "GitLabApi.get_comments", "GitLabApi.get_changed_files" }
\* Those that ask for page after page; the others send one request.
PagedOps ==
    { "GitHubApi.get_open_prs", "GitHubApi.get_comments_for_pr",
      "code_review.GitHubApi.get_open_prs", "code_review.GitHubApi.get_comments_for_pr",
      "code_review.GitHubApi.get_changed_files" }
\* Those that go through the configured repositories or projects.
PerRepoOps ==
    { "GitHubApi.get_open_prs", "code_review.GitHubApi.get_open_prs",
      "GitLabApi.get_open_mrs" }

LINK_NEXT == <<"<url>", "; rel=\"next\"", ", ", "<url>", "; rel=\"last\"">>
LINK_LAST == <<"<url>", "; rel=\"prev\"", ", ", "<url>", "; rel=\"first\"">>

\* What a host answers a request for page `page` of collection r of `size`
\* items with, per_page items to a page; a request that names no page gets
\* the first.  Item k of collection r is <<r, k>>.  A collection of one page
\* comes without a Link header.
HostPage(r, size, per_page, page) ==
    LET from == (page - 1) * per_page
        left == IF size > from THEN size - from ELSE 0
        n == IF left < per_page THEN left ELSE per_page
    IN  [ json |-> [j \in 1..n |-> <<r, from + j>>],
          headers |-> IF from + n < size THEN [Link |-> Some(LINK_NEXT)]
                      ELSE IF page > 1 THEN [Link |-> Some(LINK_LAST)]
                      ELSE [Link |-> None] ]

\* __paginated_response_has_more_pages
has_more_pages(headers) ==
    IF headers.Link.has THEN StrIn(<<"; rel=\"next\"">>, headers.Link.val) ELSE FALSE

\* schema().load(json, many=True): the objects of the items of a page
load_many(json) == [j \in 1..Len(json) |-> [id |-> json[j]]]

PageSizes == 1..MaxItems
Collections ==
    UNION { [1..n -> 0..MaxItems] : n \in 0..MaxRepos }

\* A listing operation is called: on the collections of the configured
\* repositories or projects, or on the one collection of a request.
PageSpecInit ==
    /\ ProgramIdle
    /\ scan = NoScan /\ prompt_io = NoPrompt
    /\ model_io = NoModel /\ gen_io = NoGen /\ proc = NoProc
    /\ \E op \in ListingOps, sizes \in Collections, per_page \in PageSizes :
          /\ op \notin PerRepoOps => Len(sizes) = 1
          /\ page_io = [NoPage EXCEPT !.op = op, !.sizes = sizes, !.per_page = per_page]

\* The next repository or project, or the one collection, is taken up
\* (`for repo in ...`, `has_pages_remaining = True`, `page = 0`).
PageEnter ==
    /\ page_io.op \in PagedOps
    /\ ~page_io.returned
    /\ ~page_io.has_pages_remaining
    /\ page_io.repo < Len(page_io.sizes)
    /\ page_io' = [page_io EXCEPT !.repo = @ + 1, !.page = 0,
                                  !.has_pages_remaining = TRUE]
    /\ UNCHANGED << program_vars, scan, prompt_io, model_io, gen_io, proc >>

\* One iteration of `while has_pages_remaining`.
PageRequest ==
    /\ page_io.op \in PagedOps
    /\ ~page_io.returned
    /\ page_io.has_pages_remaining
    /\ LET r == page_io.repo
           response == HostPage(r, page_io.sizes[r], page_io.per_page, page_io.page + 1)
       IN  page_io' = [page_io EXCEPT
                          !.page = @ + 1,
                          !.has_pages_remaining = has_more_pages(response.headers),
                          !.response_list = @ \o load_many(response.json)]
    /\ UNCHANGED << program_vars, scan, prompt_io, model_io, gen_io, proc >>

\* An operation that does not page: one GET for the collection, whose
\* response is loaded as it is.
SingleRequest ==
    /\ page_io.op \in ListingOps \ PagedOps
    /\ ~page_io.returned
    /\ page_io.repo < Len(page_io.sizes)
    /\ LET r == page_io.repo + 1
           response == HostPage(r, page_io.sizes[r], page_io.per_page, 1)
       IN  page_io' = [page_io EXCEPT
                          !.repo = r,
                          !.response_list = @ \o load_many(response.json)]
    /\ UNCHANGED << program_vars, scan, prompt_io, model_io, gen_io, proc >>

\* The operation returns its list.
PageReturn ==
    /\ page_io.op \in ListingOps
    /\ ~page_io.returned
    /\ ~page_io.has_pages_remaining
    /\ page_io.repo = Len(page_io.sizes)
    /\ page_io' = [page_io EXCEPT !.returned = TRUE]
    /\ UNCHANGED << program_vars, scan, prompt_io, model_io, gen_io, proc >>

PageNext == PageEnter \/ PageRequest \/ SingleRequest \/ PageReturn

SpecPage == PageSpecInit /\ [][PageNext]_vars

\* ------------------------------------------------ process_pull_requests alone
\* A stream that ends before any chunk is marked done.
CutStream == << [response |-> <<"L">>, done |-> FALSE] >>

\* The globals read_config leaves when it returns.
LoadedGlobals ==
    { read_config(c).val : c \in {d \in ConfigFiles : ~read_config(d).raised} }

HumanThreads ==
    UNION { [1..n -> HumanComments] : n \in 0..MaxThread }

\* process_pull_requests is about to be called with the open requests, as
\* main calls it (line 251): the configuration is loaded, at least one request
\* is open, humans have commented, and Ollama will answer a generation with a
\* complete stream or with one that is cut.
ProcessSpecInit ==
    /\ ProgramIdle
    /\ scan = NoScan /\ prompt_io = NoPrompt
    /\ model_io = NoModel /\ gen_io = NoGen /\ page_io = NoPage
    /\ \E G \in LoadedGlobals, open \in 1..MaxPRs, ts \in [PRs -> HumanThreads],
          stream \in {ReviewStream, CutStream} :
          /\ \A pr \in PRs : pr > open => ts[pr] = <<>>
          /\ proc = [NoProc EXCEPT !.G = G, !.open = open, !.threads = ts,
                                   !.stream = stream]

\* process_pull_requests(pull_requests) runs to its end (lines 189-225).
CallProcess ==
    /\ proc.open > 0
    /\ ~proc.called
    /\ LET w0 == [World(proc.open, proc.threads, 0) EXCEPT !.stream = proc.stream]
           w == process_pull_requests(proc.G, w0, [i \in 1..proc.open |-> i])
       IN  proc' = [proc EXCEPT !.called = TRUE, !.posts = w.posts,
                                !.gens = w.gens, !.err = w.err]
    /\ UNCHANGED << program_vars, scan, prompt_io, model_io, gen_io, page_io >>

SpecProcess == ProcessSpecInit /\ [][CallProcess]_vars

\* ================================================================== the claims
\* ---- what a claim about a pass speaks of
PassEnded == pc \in {"sleep", "cooldown"}
LoopEntered == pc \in {"loop", "sleep", "cooldown"}
OpenPRs == 1..open_count
PostsOn(pr) == SelectSeq(posts, LAMBDA p : p.pr = pr)
GensFor(pr) == SelectSeq(gens, LAMBDA g : g.pr = pr)
\* The thread of pr as the pass found it: without what the pass posted on it.
ThreadBefore(pr) == SubSeq(threads[pr], 1, Len(threads[pr]) - Len(PostsOn(pr)))
Decision(pr) == ScanComments(globals.git_username, ThreadBefore(pr))
Triggered(pr) == Decision(pr).review_requested
Requested(pr) == get_requested_model(Decision(pr).latest_comment_text)
ReturnedText == do_streaming_request(ReviewStream, 1, <<>>)

\* ---- what a claim about the scan speaks of
ScanDone == scan.git_username # <<>> /\ scan.i = Len(scan.comments)
Positions == 1..Len(scan.comments)
\* The largest member of a set of positions, 0 when it is empty.
Last(at) == IF at = {} THEN 0 ELSE CHOOSE k \in at : \A j \in at : j <= k
\* The last comment that holds "@<bot identity>".
LastMention ==
    Last({k \in Positions : StrIn(<<"@">> \o scan.git_username, scan.comments[k].body)})
\* The last comment whose author is the bot identity.
LastByBot == Last({k \in Positions : scan.comments[k].author = scan.git_username})
\* The last comment whose author name contains the bot identity.
LastByBotLike ==
    Last({k \in Positions : StrIn(scan.git_username, scan.comments[k].author)})

\* C1 (as stated): when the scan of a thread has ended, review_requested is
\* true exactly when some comment mentions "@<bot identity>" and the last
\* comment whose author is the bot identity comes strictly before the last
\* comment that holds the mention.
C1_TriggerIffUnansweredMention_AuthorIsBot ==
    ScanDone =>
        (scan.review_requested <=>
            (LastMention > 0 /\ LastByBot < LastMention))

\* C1 (amended): when the scan of a thread has ended, review_requested is true
\* exactly when some comment mentions "@<bot identity>" and the last comment
\* whose author name contains the bot identity comes strictly before the last
\* comment that holds the mention; a thread without a mention, an empty thread
\* and a thread whose last comment is by such an author are not triggered.
C1_TriggerIffUnansweredMention ==
    ScanDone =>
        /\ scan.review_requested <=>
              (LastMention > 0 /\ LastByBotLike < LastMention)
        /\ LastMention = 0 => ~scan.review_requested
        /\ (Len(scan.comments) > 0 /\ LastByBotLike = Len(scan.comments))
              => ~scan.review_requested

\* C1 witness: a scan has ended triggered on a thread where a comment of the
\* bot is followed by a mention.
C1_Witness ==
    /\ ScanDone
    /\ scan.review_requested
    /\ LastByBot > 0
    /\ LastByBot < LastMention

\* C2: when a pass in which no remote call failed has ended, every open request
\* whose thread was triggered with no requested model, or with an allowed one,
\* has had exactly one generation, with the requested model or else the default
\* model, and exactly one new comment, the returned text.
C2_TriggeredRequestReviewedOnce ==
    (PassEnded /\ failed_at = 0) =>
        \A pr \in OpenPRs :
            ( /\ Triggered(pr)
              /\ \/ ~Requested(pr).has
                 \/ globals.allowed_models = <<>>
                 \/ InList(Requested(pr).val, globals.allowed_models) )
            => /\ Len(GensFor(pr)) = 1
               /\ GensFor(pr)[1].model = IF Requested(pr).has THEN Requested(pr).val
                                         ELSE globals.default_model
               /\ Len(PostsOn(pr)) = 1
               /\ PostsOn(pr)[1].body = ReturnedText

\* C3: when a pass in which no remote call failed has ended, every open request
\* that was triggered with a model that is not in the non-empty allow-list has
\* exactly one new comment, which names the model and lists the allowed models,
\* and no generation.
C3_DisallowedModelRejectedOnce ==
    (PassEnded /\ failed_at = 0) =>
        \A pr \in OpenPRs :
            ( /\ Triggered(pr)
              /\ Requested(pr).has
              /\ globals.allowed_models # <<>>
              /\ ~InList(Requested(pr).val, globals.allowed_models) )
            => /\ Len(PostsOn(pr)) = 1
               /\ StrIn(Requested(pr).val \o REJECTION_TEXT, PostsOn(pr)[1].body)
               /\ \A i \in 1..Len(globals.allowed_models) :
                     StrIn(globals.allowed_models[i], PostsOn(pr)[1].body)
               /\ Len(GensFor(pr)) = 0

\* C4: when the allow-list is empty and a pass in which no remote call failed
\* has ended, every open request that was triggered with a requested model has
\* had a generation with that model, and no rejection comment.
C4_EmptyAllowListRejectsNothing ==
    (PassEnded /\ failed_at = 0 /\ globals.allowed_models = <<>>) =>
        \A pr \in OpenPRs :
            (Triggered(pr) /\ Requested(pr).has)
            => /\ Len(GensFor(pr)) = 1
               /\ GensFor(pr)[1].model = Requested(pr).val
               /\ \A i \in 1..Len(PostsOn(pr)) :
                     ~StrIn(REJECTION_TEXT, PostsOn(pr)[i].body)

\* C7: once the loop is entered the script stays in it, whatever a pass
\* raises, and after every failed pass the loop starts a pass again.
C7_LoopNeverLeft ==
    /\ [][LoopEntered => LoopEntered']_vars
    /\ [](pc = "cooldown" => <>(pc = "loop"))

\* C7 witness: a pass has failed and the loop is about to start the next one.
C7_Witness == pc = "loop" /\ err # "" /\ slept = COOLDOWN_SLEEP

\* ---- what the claim about the configuration speaks of
Missing(k) == ~k.has \/ Len(k.val) = 0
DefaultModel == IF Missing(config_json.ai_model) THEN DEFAULT_AI_MODEL
                ELSE config_json.ai_model.val
InvalidConfig ==
    \/ Missing(config_json.token)
    \/ Missing(config_json.git_url)
    \/ Missing(config_json.username)
    \/ (Missing(config_json.repositories) /\ Missing(config_json.projects))
    \/ /\ ~Missing(config_json.allowed_models)
       /\ ~InList(DefaultModel, config_json.allowed_models.val)

\* C8: with an invalid configuration the loop is never entered, no remote call
\* is made, and the process exits with a status other than 0.
C8_InvalidConfigExitsNonZero ==
    (pc # "idle" /\ InvalidConfig) =>
        /\ ~LoopEntered
        /\ calls = <<>>
        /\ pc = "exited" => exit_status # 0

\* C9: when a pass has ended, the open requests of every configured GitHub
\* repository and of every configured GitLab project have been listed in it,
\* and a pass that found no open request is followed by the short sleep.
C9_EverySourceListed ==
    PassEnded =>
        /\ \A i \in 1..Len(config_json.repositories.val) :
              \E k \in 1..Len(calls) :
                  /\ calls[k].op = "get_open_prs"
                  /\ calls[k].arg = config_json.repositories.val[i]
        /\ \A i \in 1..Len(config_json.projects.val) :
              \E k \in 1..Len(calls) :
                  /\ calls[k].op = "get_open_mrs"
                  /\ calls[k].arg = config_json.projects.val[i]
        /\ (failed_at = 0 /\ open_count = 0) => slept = NORMAL_SLEEP

\* ---- what the claim about the prompt speaks of
\* The part of the prompt after its fixed head, the title and "Git diff\n".
EmbeddedDiff ==
    LET head == Len(PROMPT_HEAD) + Len(prompt_io.title) + Len(PROMPT_TAIL) + Len(DIFF_HEAD)
    IN  SubSeq(prompt_io.prompt, head + 1, Len(prompt_io.prompt))

\* C10: the diff in a built prompt is the first 4000 characters of the diff
\* when the diff is longer than 4000 characters, and the whole diff otherwise.
C10_DiffTruncatedTo4000 ==
    prompt_io.built =>
        EmbeddedDiff = IF Len(prompt_io.diff) > 4000
                       THEN SubSeq(prompt_io.diff, 1, 4000)
                       ELSE prompt_io.diff

\* ---- what a claim about get_requested_model speaks of
\* word stands at text[p..] as a whole word, whatever the case.
WholeWordAt(text, p, word) ==
    /\ WordAt(text, p, word)
    /\ (p = 1 \/ text[p - 1] \notin WordChars)
    /\ (p + Len(word) > Len(text) \/ text[p + Len(word)] \notin WordChars)
\* The length of the keyword that stands at p as a whole word, 0 when none does.
KeywordAt(text, p) ==
    IF WholeWordAt(text, p, <<"u", "s", "e">>) THEN 3
    ELSE IF WholeWordAt(text, p, <<"u", "s", "i", "n", "g">>) THEN 5
    ELSE 0
\* Where the first whole-word "use" or "using" stands, 0 when there is none.
FirstKeyword(text) ==
    LET at == {p \in 1..Len(text) : KeywordAt(text, p) # 0}
    IN  IF at = {} THEN 0 ELSE CHOOSE p \in at : \A k \in at : p <= k
\* The run of token characters that follows position q after white space.
TokenFollowing(text, q) ==
    LET t == SkipSpace(text, q)
    IN  IF t > q /\ t <= Len(text) /\ text[t] \in TokenChars
        THEN Some(SubSeq(text, t, TokenEnd(text, t)))
        ELSE None

\* C11: get_requested_model returns the run of token characters that follows,
\* after white space, the first case-insensitive whole-word "use" or "using" of
\* the text, and none when there is no such word or the first one is not
\* followed by white space and a token.
C11_ModelFollowsFirstKeyword ==
    model_io.called =>
        LET p == FirstKeyword(model_io.text)
        IN  model_io.model =
                IF p = 0 THEN None
                ELSE TokenFollowing(model_io.text, p + KeywordAt(model_io.text, p))

\* ---- what a claim about a generation speaks of
\* The lines of a stream that are chunks marked done.
DoneAt(lines) == {k \in 1..Len(lines) : lines[k] # <<>> /\ lines[k].done}
\* The first of them, 0 when there is none.
FirstDone(lines) ==
    IF DoneAt(lines) = {} THEN 0
    ELSE CHOOSE k \in DoneAt(lines) : \A j \in DoneAt(lines) : k <= j
\* The response fields of the chunks among the first n lines, in order.
RECURSIVE ResponsesUpTo(_, _)
ResponsesUpTo(lines, n) ==
    IF n = 0 THEN <<>>
    ELSE ResponsesUpTo(lines, n - 1) \o (IF lines[n] = <<>> THEN <<>> ELSE lines[n].response)

\* C12: when Ollama answers a generation with a stream that holds a chunk
\* marked done, do_generation reads no line after the first such chunk, hands
\* nothing to its caller before it has returned, and returns, without an
\* error, the response fields of all chunks up to and including that chunk, in
\* the order they arrived.
C12_ReturnsTextUpToFirstDone ==
    (gen_io.at \in {"read", "done"} /\ gen_io.status_ok /\ DoneAt(gen_io.lines) # {}) =>
        /\ gen_io.i <= FirstDone(gen_io.lines)
        /\ IF gen_io.at = "done"
           THEN /\ gen_io.err = ""
                /\ gen_io.value =
                      Some(ResponsesUpTo(gen_io.lines, FirstDone(gen_io.lines)))
           ELSE gen_io.value = None

\* C12 witness: do_generation has returned a text of several chunks from a
\* stream that went on after its first done chunk.
C12_Witness ==
    /\ gen_io.at = "done"
    /\ gen_io.value.has
    /\ FirstDone(gen_io.lines) > 1
    /\ FirstDone(gen_io.lines) < Len(gen_io.lines)
    /\ gen_io.lines[1] # <<>>
    /\ gen_io.lines[Len(gen_io.lines)] # <<>>

\* ---- what a claim about a listing operation speaks of
\* The objects of all items of collections r.. of the host, in its order.
RECURSIVE AllItems(_, _)
AllItems(sizes, r) ==
    IF r > Len(sizes) THEN <<>>
    ELSE [k \in 1..sizes[r] |-> [id |-> <<r, k>>]] \o AllItems(sizes, r + 1)

\* C13: when a listing operation of a client has returned, its list holds every
\* item of every page the host serves for the collections asked for, in page
\* order.
C13_ListingReturnsAllPages ==
    page_io.returned => page_io.response_list = AllItems(page_io.sizes, 1)

\* C14: a step of the scan over a comment whose author is the bot identity
\* leaves review_requested false and the recorded trigger text as it was,
\* whatever the body of the comment holds.
C14_BotCommentNeverTriggers ==
    [][ (/\ scan.i < Len(scan.comments)
         /\ scan'.i = scan.i + 1
         /\ scan.comments[scan.i + 1].author = scan.git_username)
        => (/\ ~scan'.review_requested
            /\ scan'.latest_comment_text = scan.latest_comment_text) ]_vars

\* C14 witness: the scan has just passed a comment of the bot that mentions
\* "@<bot identity>", a trigger was pending before it, and none is now.
C14_Witness ==
    /\ scan.i > 0
    /\ scan.comments[scan.i].author = scan.git_username
    /\ StrIn(<<"@">> \o scan.git_username, scan.comments[scan.i].body)
    /\ ScanFirst(scan.git_username, scan.comments, scan.i - 1).review_requested
    /\ ~scan.review_requested

\* ---- what a claim about the requested model speaks of
\* The model process_pull_requests asks for after the scan (line 209).
RequestedModel == get_requested_model(scan.latest_comment_text)

\* C15: when the scan of a thread has ended triggered, the last comment that
\* mentions "@<bot identity>" comes after the last comment of the bot, the
\* recorded text is the body of that comment, and the requested model is the
\* one get_requested_model finds in that body alone.
C15_ModelFromLatestMention ==
    (ScanDone /\ scan.review_requested) =>
        /\ LastMention > 0
        /\ LastByBot < LastMention
        /\ scan.latest_comment_text = scan.comments[LastMention].body
        /\ RequestedModel = get_requested_model(scan.comments[LastMention].body)

\* C15 witness: a scan has ended triggered on a thread where an earlier
\* mention that no bot comment follows names another model than the last one.
C15_Witness ==
    /\ ScanDone
    /\ scan.review_requested
    /\ \E k \in Positions :
          /\ k < LastMention
          /\ k > LastByBotLike
          /\ StrIn(<<"@">> \o scan.git_username, scan.comments[k].body)
          /\ get_requested_model(scan.comments[k].body) # RequestedModel

\* C17: when process_pull_requests has run while Ollama answers a generation
\* with a stream that ends without a chunk marked done, every request whose
\* thread is triggered, with no requested model or with a permitted one, has
\* received one comment: the response fields of all chunks of the stream.
C17_PartialTextPosted ==
    (proc.called /\ DoneAt(proc.stream) = {}) =>
        \A pr \in 1..proc.open :
            LET st == ScanComments(proc.G.git_username, proc.threads[pr])
                model == get_requested_model(st.latest_comment_text)
            IN  (st.review_requested
                    /\ (~model.has \/ InList(model.val, proc.G.allowed_models)))
                => SelectSeq(proc.posts, LAMBDA p : p.pr = pr) =
                      << [pr |-> pr,
                          body |-> ResponsesUpTo(proc.stream, Len(proc.stream))] >>
====
